---- MODULE Spec2Model ----
(***************************************************************************)
(* A model of plot_transcript.py (flemingtonlab/circleVis): the intron     *)
(* scaler, the range transform, the junction mapper, the two curve         *)
(* generators, the gene -> transcript resolver and the module-level run    *)
(* with its database connections.                                          *)
(*                                                                         *)
(* Python's float arithmetic is modelled as exact rational arithmetic:     *)
(* a number is a pair <<n, d>> in lowest terms with d > 0.                 *)
(* Coverage values, exon colours (to_rgb, --normalize), titles and the     *)
(* files written are left out: get_coverage is modelled by its connection  *)
(* only, plot_exons by the rectangles' geometry.                           *)
(***************************************************************************)
EXTENDS Integers, Sequences, FiniteSets

VARIABLES
    pc,             \* position of the caller / of the module-level script
    intron_scale,   \* args.intron_scale (None when the flag is absent)
    coords,         \* exon spans, sorted(zip(starts, stops))
    scaled_coords,  \* result of scale_introns
    stdout,         \* lines printed so far
    transcript,     \* args.transcript / the value get_transcript_from_gene returned
    query,          \* argument of the last transform call
    tresult,        \* value returned by the last transform call
    jin,            \* junctions handed to scale_coords
    jout,           \* junctions returned by scale_coords
    ax,             \* the sub-plot being drawn: its limits and its patches
    drawn,          \* junctions handed to the curve generator last called
    rows,           \* rows of the coverage table selected for the gene
    databases,      \* number of paths in args.database
    gene,           \* args.gene
    reduce_canonical,   \* args.reduce_canonical
    reduce_backsplice,  \* args.reduce_backsplice
    conns,          \* sqlite3 connections that are open
    opened,         \* number of sqlite3.connect calls so far
    db_index,       \* position of the loop over args.database
    canonical,      \* canonical junctions of the sample being read
    backsplice,     \* backsplice junctions of the sample being read
    samples,        \* the global list samples
    figure,         \* the sub-plots added to the figure
    starts_stops,   \* sorted(zip(starts, stops)) as fetched by get_exons
    db_junctions    \* what get_sj returned, per database and table

callV == <<query, tresult, jin, jout>>
curveV == <<ax, drawn>>
runV == <<databases, gene, reduce_canonical, reduce_backsplice, conns, opened, db_index,
          canonical, backsplice, samples, figure, starts_stops, db_junctions>>
vars == <<pc, intron_scale, coords, scaled_coords, stdout, transcript, rows,
          callV, curveV, runV>>

(***************************** bounds **************************************)
MaxCoord == 4
MaxExons == 2
MaxFactor == 2
MaxCount == 2
MaxRows == 3
MaxSpan == 1
MaxDb == 2

(************************ exact arithmetic *********************************)
None == "None"
\* None where a number is expected; no number has denominator 0
NoNumber == <<0, 0>>

Abs(x) == IF x < 0 THEN -x ELSE x

RECURSIVE GCD(_, _)
GCD(a, b) == IF b = 0 THEN a ELSE GCD(b, a % b)

Rat(n, d) ==
    LET g == GCD(Abs(n), Abs(d))
        s == IF d < 0 THEN -1 ELSE 1
    IN  <<(s * n) \div g, (s * d) \div g>>

R(i) == <<i, 1>>
Zero == R(0)
RAdd(a, b) == Rat(a[1] * b[2] + b[1] * a[2], a[2] * b[2])
RSub(a, b) == Rat(a[1] * b[2] - b[1] * a[2], a[2] * b[2])
RMul(a, b) == Rat(a[1] * b[1], a[2] * b[2])
RDiv(a, b) == Rat(a[1] * b[2], a[2] * b[1])
RLe(a, b) == a[1] * b[2] <= b[1] * a[2]
RLt(a, b) == a[1] * b[2] < b[1] * a[2]

(************************* scale_introns ***********************************)
ZeroFactorWarning == "Intron scaling factor of 0 not allowed. Plotting without scaling."

RECURSIVE scale_introns_loop(_, _, _, _)
scale_introns_loop(cs, scaling_factor, newcoords, i) ==
    IF i > Len(cs) THEN newcoords
    ELSE LET length == RSub(cs[i][2], cs[i][1])
             exonEnd == cs[i - 1][2]
             nextExonStart == cs[i][1]
             intron == RDiv(RSub(nextExonStart, exonEnd), scaling_factor)
             left == RAdd(newcoords[i - 1][2], intron)
             right == RAdd(left, length)
         IN  scale_introns_loop(cs, scaling_factor, Append(newcoords, <<left, right>>), i + 1)

\* scale_introns with the exon lengths divided by the factor as well
scale_introns_all_scaled(cs, scaling_factor) ==
    LET nc[i \in 1..Len(cs)] ==
            IF i = 1 THEN cs[1]
            ELSE LET length == RDiv(RSub(cs[i][2], cs[i][1]), scaling_factor)
                     intron == RDiv(RSub(cs[i][1], cs[i - 1][2]), scaling_factor)
                     left == RAdd(nc[i - 1][2], intron)
                 IN  <<left, RAdd(left, length)>>
    IN  IF scaling_factor = Zero THEN cs ELSE [i \in 1..Len(cs) |-> nc[i]]

\* scale_introns with the gap multiplied by the factor
scale_introns_times(cs, scaling_factor) ==
    LET nc[i \in 1..Len(cs)] ==
            IF i = 1 THEN cs[1]
            ELSE LET length == RSub(cs[i][2], cs[i][1])
                     intron == RMul(RSub(cs[i][1], cs[i - 1][2]), scaling_factor)
                     left == RAdd(nc[i - 1][2], intron)
                 IN  <<left, RAdd(left, length)>>
    IN  IF scaling_factor = Zero THEN cs ELSE [i \in 1..Len(cs) |-> nc[i]]

scale_introns(cs, scaling_factor) ==
    IF scaling_factor = Zero THEN cs
    ELSE scale_introns_loop(cs, scaling_factor, <<cs[1]>>, 2)

scale_introns_prints(scaling_factor) ==
    IF scaling_factor = Zero THEN <<ZeroFactorWarning>> ELSE <<>>

(**************************** transform ************************************)
Flatten(spans) == [k \in 1..(2 * Len(spans)) |-> spans[(k + 1) \div 2][2 - (k % 2)]]

\* for i in range(len(orig_c) - 1): ... break  (i is 1-based here); without a
\* match the loop ends with i on the last pair.
RECURSIVE transform_scan(_, _, _)
transform_scan(orig_c, q, i) ==
    IF i >= Len(orig_c) - 1 THEN Len(orig_c) - 1
    ELSE IF RLe(orig_c[i], q) /\ RLe(q, orig_c[i + 1]) THEN i
    ELSE transform_scan(orig_c, q, i + 1)

transform(original, scaled, q) ==
    LET orig_c == Flatten(original)
        scal_c == Flatten(scaled)
        i == transform_scan(orig_c, q, 1)
        left == orig_c[i]
        right == orig_c[i + 1]
        \* len(scal_c) > i + 2 with the 0-based i of the source
        inside == Len(scal_c) > i + 1
        n_left == scal_c[i]
        n_right == IF inside THEN scal_c[i + 1] ELSE q
        n_range == RSub(n_right, n_left)
        o_range == RSub(right, left)
    IN  IF o_range = Zero THEN n_left
        ELSE RAdd(RDiv(RMul(RSub(q, left), n_range), o_range), n_left)

scale_coords(oldranges, newranges, js) ==
    [k \in 1..Len(js) |->
        <<transform(oldranges, newranges, js[k][1]),
          transform(oldranges, newranges, js[k][2]),
          js[k][3]>>]

(************************** curve generators *******************************)
Ceil(a) == IF a[1] % a[2] = 0 THEN a[1] \div a[2] ELSE (a[1] \div a[2]) + 1

\* numpy.arange(start, stop, step): ceil((stop - start) / step) values start + k * step
arange(start, stop, step) ==
    LET n == Ceil(RDiv(RSub(stop, start), step))
    IN  [k \in 1..n |-> RAdd(start, RMul(R(k - 1), step))]

RMin(S) == CHOOSE x \in S : \A z \in S : RLe(x, z)
RMax(S) == CHOOSE x \in S : \A z \in S : RLe(z, x)

ybottom == Rat(1, 2)
height == Rat(1, 2)
ytop == RAdd(ybottom, height)
gene_length(cs) ==
    LET transcript_start == RMin({cs[i][1] : i \in 1..Len(cs)})
        transcript_stop == RMax({cs[i][2] : i \in 1..Len(cs)})
    IN  RSub(transcript_stop, transcript_start)

\* add_ax up to set_xlim / set_ylim: a fresh sub-plot with its limits
new_ax(cs) ==
    LET transcript_start == RMin({cs[i][1] : i \in 1..Len(cs)})
        transcript_stop == RMax({cs[i][2] : i \in 1..Len(cs)})
        x_adjustment == RMul(Rat(5, 100), gene_length(cs))
        y_adjustment == RMul(RMul(ytop, height), R(3))
    IN  [xlim |-> <<RSub(transcript_start, x_adjustment), RAdd(transcript_stop, x_adjustment)>>,
         ylim |-> <<RSub(ybottom, y_adjustment), RAdd(ytop, y_adjustment)>>,
         patches |-> <<>>]

plot_exons(cs, y, h) ==
    [i \in 1..Len(cs) |->
        [kind |-> "Rectangle", xy |-> <<cs[i][1], y>>,
         width |-> RSub(cs[i][2], cs[i][1]), height |-> h]]

radian_low == Rat(2, 10)
radian_high == Rat(4, 10)
radian_diff == RSub(radian_high, radian_low)
step_denominator == RDiv(R(1), radian_diff)

radian_corr(arc_len, xlen) ==
    LET c0 == R(1)
        c1 == IF RLt(RDiv(xlen, R(8)), arc_len)
              THEN RDiv(RMul(R(2), arc_len), xlen) ELSE c0
        c2 == IF RLt(RDiv(xlen, R(4)), arc_len)
              THEN RDiv(RMul(Rat(15, 10), arc_len), xlen) ELSE c1
        c3 == IF RLt(RDiv(xlen, R(2)), arc_len)
              THEN RDiv(arc_len, xlen) ELSE c2
        c4 == IF RLt(RDiv(xlen, Rat(12, 10)), arc_len)
              THEN RDiv(RMul(Rat(4, 10), arc_len), xlen) ELSE c3
    IN  c4

\* the step of plot_circles used for the arcs
sj_step_half(counts) == RDiv(R(1), RMul(R(counts), R(2)))

sj_step(counts) == RDiv(R(1), RMul(R(counts), step_denominator))

\* the body of plot_SJ_curves' loop for one junction
sj_arcs(j, xlen, y) ==
    IF j[3] = 0 THEN <<>>
    ELSE LET arc_len == RSub(j[2], j[1])
             corr == radian_corr(arc_len, xlen)
             rs == arange(radian_low, radian_high, sj_step(j[3]))
         IN  [k \in 1..Len(rs) |->
                [kind |-> "ConnectionPatch", posA |-> <<j[1], y>>, posB |-> <<j[2], y>>,
                 rad |-> RSub(Zero, RMul(rs[k], corr))]]

RECURSIVE plot_SJ_curves(_, _, _)
plot_SJ_curves(xlim, coordinates, y) ==
    IF coordinates = <<>> THEN <<>>
    ELSE sj_arcs(Head(coordinates), RSub(xlim[2], xlim[1]), y)
         \o plot_SJ_curves(xlim, Tail(coordinates), y)

draw_backsplice(ylim, start, stop, y, adjust, bezier_offset, gene_size) ==
    LET space == RSub(ylim[2], ylim[1])
        size_adjust == RDiv(gene_size, R(20))
        dip == RSub(RSub(y, RMul(bezier_offset, space)), adjust)
    IN  [kind |-> "PathPatch",
         verts |-> << <<start, y>>, <<RSub(start, size_adjust), dip>>,
                      <<RAdd(stop, size_adjust), dip>>, <<stop, y>> >>]

\* the step without the factor 2
circle_step_whole(counts) == RDiv(R(1), R(counts))

circle_step(counts) == RDiv(R(1), R(counts * 2))

\* the body of plot_circles' loop for one junction
circle_curves(j, ylim, y, gene_size) ==
    IF j[3] = 0 THEN <<>>
    ELSE LET nums == arange(Zero, Rat(1, 2), circle_step(j[3]))
         IN  [k \in 1..Len(nums) |->
                draw_backsplice(ylim, j[1], j[2], y, nums[k], Rat(15, 100), gene_size)]

RECURSIVE plot_circles(_, _, _, _)
plot_circles(ylim, coordinates, y, gene_size) ==
    IF coordinates = <<>> THEN <<>>
    ELSE circle_curves(Head(coordinates), ylim, y, gene_size)
         \o plot_circles(ylim, Tail(coordinates), y, gene_size)

(********************* get_transcript_from_gene ****************************)
\* transcripts[transcript] += 1 + (stop - start), on a dict that keeps its keys
\* in insertion order: a sequence of <<transcript, length>> pairs
add_row(transcripts, row) ==
    LET length == 1 + (row[3] - row[2])
    IN  IF \E k \in 1..Len(transcripts) : transcripts[k][1] = row[1]
        THEN [k \in 1..Len(transcripts) |->
                IF transcripts[k][1] = row[1]
                THEN <<row[1], transcripts[k][2] + length>> ELSE transcripts[k]]
        ELSE Append(transcripts, <<row[1], length>>)

RECURSIVE transcript_lengths(_, _)
transcript_lengths(fetched, transcripts) ==
    IF fetched = <<>> THEN transcripts
    ELSE transcript_lengths(Tail(fetched), add_row(transcripts, Head(fetched)))

\* the comparison with >= in place of >
at_least_as_long(length, m) == length >= m

is_longer(length, m) == length > m

RECURSIVE longest_of(_, _, _)
longest_of(items, m, longest) ==
    IF items = <<>> THEN longest
    ELSE IF is_longer(Head(items)[2], m)
         THEN longest_of(Tail(items), Head(items)[2], Head(items)[1])
         ELSE longest_of(Tail(items), m, longest)

get_transcript_from_gene(fetched) ==
    longest_of(transcript_lengths(fetched, <<>>), 0, "")


(************************** input domains **********************************)
Coordinates == {R(i) : i \in 0..MaxCoord}

\* sorted, non-overlapping exon lists with start <= stop
Sorted(cs) ==
    /\ \A i \in 1..Len(cs) : RLe(cs[i][1], cs[i][2])
    /\ \A i \in 2..Len(cs) : RLe(cs[i - 1][2], cs[i][1])

ExonLists ==
    UNION {{cs \in [1..n -> Coordinates \X Coordinates] : Sorted(cs)} : n \in 1..MaxExons}

Factors ==
    {Rat(n, d) : n \in (-MaxFactor)..MaxFactor, d \in 1..2}

Junctions == {<<a, b, c>> : a \in Coordinates, b \in Coordinates, c \in 0..MaxCount}

\* inputs of the mapper: no junction, or one with start <= stop
JunctionLists == {<<>>} \cup {<<j>> : j \in {x \in Junctions : RLe(x[1], x[2])}}

(******************** callers of the pure functions ************************)
Idle ==
    /\ intron_scale = NoNumber
    /\ scaled_coords = <<>>
    /\ stdout = <<>>
    /\ transcript = None
    /\ query = NoNumber /\ tresult = NoNumber /\ jin = <<>> /\ jout = <<>>
    /\ ax = None /\ drawn = <<>>
    /\ databases = 1 /\ gene = None
    /\ reduce_canonical = 0 /\ reduce_backsplice = 0
    /\ conns = {} /\ opened = 0 /\ db_index = 1
    /\ canonical = <<>> /\ backsplice = <<>>
    /\ samples = <<>> /\ figure = <<>>
    /\ db_junctions = <<>>

InitScale ==
    /\ Idle
    /\ pc = "scale_introns"
    /\ coords \in ExonLists
    /\ starts_stops = coords
    /\ rows = <<>>

CallScaleIntrons ==
    /\ pc = "scale_introns"
    /\ \E s \in Factors :
        /\ intron_scale' = s
        /\ scaled_coords' = scale_introns(coords, s)
        /\ stdout' = stdout \o scale_introns_prints(s)
    /\ pc' = "transform"
    /\ UNCHANGED <<coords, transcript, rows, callV, curveV, runV>>

CallTransform ==
    /\ pc = "transform"
    /\ \E q \in Coordinates :
        /\ query' = q
        /\ tresult' = transform(coords, scaled_coords, q)
    /\ pc' = "transformed"
    /\ UNCHANGED <<intron_scale, coords, scaled_coords, stdout, transcript, rows,
                   jin, jout, curveV, runV>>

CallScaleCoords ==
    /\ pc = "transform"
    /\ \E js \in JunctionLists :
        /\ jin' = js
        /\ jout' = scale_coords(coords, scaled_coords, js)
    /\ pc' = "mapped"
    /\ UNCHANGED <<intron_scale, coords, scaled_coords, stdout, transcript, rows,
                   query, tresult, curveV, runV>>

NextScale == CallScaleIntrons \/ CallTransform \/ CallScaleCoords

SpecScale == InitScale /\ [][NextScale]_vars

(******************* callers of the curve generators ***********************)
\* junctions a range-filtered get_sj can return for a transcript: both ends
\* inside [transcript_start, transcript_stop]
InRange(cs) ==
    {j \in Junctions : /\ RLe(cs[1][1], j[1]) /\ RLe(j[1], cs[Len(cs)][2])
                       /\ RLe(cs[1][1], j[2]) /\ RLe(j[2], cs[Len(cs)][2])}

CurveInputs(cs) ==
    {<<>>} \cup {<<j>> : j \in InRange(cs)} \cup {<<j, k>> : j \in InRange(cs), k \in InRange(cs)}

InitCurves ==
    /\ Idle
    /\ pc = "add_ax"
    /\ coords \in {cs \in ExonLists : Len(cs) = 1}
    /\ starts_stops = coords
    /\ rows = <<>>

CallNewAx ==
    /\ pc = "add_ax"
    /\ ax' = new_ax(coords)
    /\ pc' = "plot"
    /\ UNCHANGED <<intron_scale, coords, scaled_coords, stdout, transcript, rows,
                   callV, drawn, runV>>

CallPlotSJCurves ==
    /\ pc = "plot"
    /\ \E js \in CurveInputs(coords) :
        /\ drawn' = js
        /\ ax' = [ax EXCEPT !.patches = @ \o plot_SJ_curves(ax.xlim, js, ytop)]
    /\ pc' = "plot_SJ_curves"
    /\ UNCHANGED <<intron_scale, coords, scaled_coords, stdout, transcript, rows,
                   callV, runV>>

CallPlotCircles ==
    /\ pc = "plot"
    /\ \E js \in CurveInputs(coords) :
        /\ drawn' = js
        /\ ax' = [ax EXCEPT !.patches =
                    @ \o plot_circles(ax.ylim, js, ybottom, gene_length(coords))]
    /\ pc' = "plot_circles"
    /\ UNCHANGED <<intron_scale, coords, scaled_coords, stdout, transcript, rows,
                   callV, runV>>

NextCurves == CallNewAx \/ CallPlotSJCurves \/ CallPlotCircles

SpecCurves == InitCurves /\ [][NextCurves]_vars

(********************** caller of the resolver *****************************)
Transcripts == {"T1", "T2", "T3"}

\* rows (transcript, start, stop) of the coverage table, start <= stop
GeneRow == {r \in Transcripts \X (0..MaxSpan) \X (0..MaxSpan) : r[2] <= r[3]}

GeneRows == UNION {[1..n -> GeneRow] : n \in 0..MaxRows}

InitGene ==
    /\ Idle
    /\ pc = "get_transcript_from_gene"
    /\ coords = <<>>
    /\ starts_stops = <<>>
    /\ rows \in GeneRows

CallGetTranscriptFromGene ==
    /\ pc = "get_transcript_from_gene"
    /\ transcript' = get_transcript_from_gene(rows)
    /\ pc' = "resolved"
    /\ UNCHANGED <<intron_scale, coords, scaled_coords, stdout, rows,
                   callV, curveV, runV>>

NextGene == CallGetTranscriptFromGene

SpecGene == InitGene /\ [][NextGene]_vars

(*********************** the module-level run ******************************)
\* "if args.intron_scale:": None and 0.0 are false
Truthy(x) == x # NoNumber /\ x # Zero

\* args.reduce_canonical, args.reduce_backsplice: an absent flag (None) is held as
\* 0, which "if args.reduce_canonical:" treats alike

reduce(js, divisor) ==
    [k \in 1..Len(js) |-> <<js[k][1], js[k][2], js[k][3] \div divisor>>]

\* what the range-filtered query of get_sj may return for the transcript: no
\* junction, or one from the first exon's stop to the last exon's stop
DbJunctions(cs) == {<<>>, << <<cs[1][2], cs[Len(cs)][2], MaxCount>> >>}

\* exon lists the run is tried on: those spanning the whole coordinate range
RunExonLists == {cs \in ExonLists : cs[1][1] = Zero /\ cs[Len(cs)][2] = R(MaxCoord)}

\* values of --intron-scale the run is tried on
RunFactors == {NoNumber, Zero, Rat(1, 2), R(2), R(-1)}

\* rows the coverage table may hold for the gene
RunGeneRows == {<<>>, << <<"T1", 0, 1>> >>, << <<"T1", 0, 0>>, <<"T2", 0, 1>> >>}

Init ==
    /\ pc = "parse_args"
    /\ intron_scale \in RunFactors
    /\ databases \in 1..MaxDb
    /\ gene \in {None, "G"}
    /\ transcript \in {None, "T1"}
    /\ reduce_canonical \in {0, 2}
    /\ reduce_backsplice \in {0, 2}
    /\ coords = <<>> /\ starts_stops = <<>> /\ scaled_coords = <<>>
    /\ stdout = <<>> /\ rows = <<>>
    /\ query = NoNumber /\ tresult = NoNumber /\ jin = <<>> /\ jout = <<>>
    /\ ax = None /\ drawn = <<>>
    /\ conns = {} /\ opened = 0 /\ db_index = 1
    /\ canonical = <<>> /\ backsplice = <<>>
    /\ samples = <<>> /\ figure = <<>> /\ db_junctions = <<>>

\* parse_args: a database path that does not exist
ParseArgsNoDatabase ==
    /\ pc = "parse_args"
    /\ pc' = "exit"
    /\ UNCHANGED <<intron_scale, coords, scaled_coords, stdout, transcript, rows,
                   callV, curveV, runV>>

\* parse_args: neither a gene nor a transcript
ParseArgsNoSelector ==
    /\ pc = "parse_args"
    /\ gene = None /\ transcript = None
    /\ pc' = "exit"
    /\ UNCHANGED <<intron_scale, coords, scaled_coords, stdout, transcript, rows,
                   callV, curveV, runV>>

ParseArgs ==
    /\ pc = "parse_args"
    /\ ~(gene = None /\ transcript = None)
    /\ pc' = IF transcript = None THEN "get_transcript_from_gene" ELSE "get_exons"
    /\ UNCHANGED <<intron_scale, coords, scaled_coords, stdout, transcript, rows,
                   callV, curveV, runV>>

\* conn = sqlite3.connect(db_path)
GetTranscriptConnect ==
    /\ pc = "get_transcript_from_gene"
    /\ opened' = opened + 1
    /\ conns' = conns \cup {opened + 1}
    /\ pc' = "get_transcript_from_gene.fetch"
    /\ UNCHANGED <<intron_scale, coords, scaled_coords, stdout, transcript, rows,
                   callV, curveV, databases, gene, reduce_canonical, reduce_backsplice,
                   db_index, canonical, backsplice, samples, figure, starts_stops,
                   db_junctions>>

GetTranscriptFromGene ==
    /\ pc = "get_transcript_from_gene.fetch"
    /\ \E fetched \in RunGeneRows :
        /\ rows' = fetched
        /\ transcript' = get_transcript_from_gene(fetched)
    /\ conns' = conns \ {opened}
    /\ pc' = "get_exons"
    /\ UNCHANGED <<intron_scale, coords, scaled_coords, stdout, callV, curveV,
                   databases, gene, reduce_canonical, reduce_backsplice, opened,
                   db_index, canonical, backsplice, samples, figure, starts_stops,
                   db_junctions>>

\* conn = sqlite3.connect(db_path)
GetExonsConnect ==
    /\ pc = "get_exons"
    /\ opened' = opened + 1
    /\ conns' = conns \cup {opened + 1}
    /\ pc' = "get_exons.fetch"
    /\ UNCHANGED <<intron_scale, coords, scaled_coords, stdout, transcript, rows,
                   callV, curveV, databases, gene, reduce_canonical, reduce_backsplice,
                   db_index, canonical, backsplice, samples, figure, starts_stops,
                   db_junctions>>

\* no row for the transcript: sys.exit before conn.close()
GetExonsNotFound ==
    /\ pc = "get_exons.fetch"
    /\ pc' = "exit"
    /\ UNCHANGED <<intron_scale, coords, scaled_coords, stdout, transcript, rows,
                   callV, curveV, runV>>

\* rows on more than one chromosome: print, sys.exit(1) before conn.close()
GetExonsSeveralChromosomes ==
    /\ pc = "get_exons.fetch"
    /\ transcript # ""
    /\ stdout' = Append(stdout, "Error: found on more than one chromosome")
    /\ pc' = "exit"
    /\ UNCHANGED <<intron_scale, coords, scaled_coords, transcript, rows,
                   callV, curveV, runV>>

GetExons ==
    /\ pc = "get_exons.fetch"
    /\ transcript # ""
    /\ \E cs \in RunExonLists :
        /\ starts_stops' = cs
        /\ coords' = cs
    /\ conns' = conns \ {opened}
    /\ pc' = "scale_introns"
    /\ UNCHANGED <<intron_scale, scaled_coords, stdout, transcript, rows, callV, curveV,
                   databases, gene, reduce_canonical, reduce_backsplice, opened,
                   db_index, canonical, backsplice, samples, figure, db_junctions>>

\* if args.intron_scale: scaled_coords = scale_introns(coords, factor)
ScaleIntrons ==
    /\ pc = "scale_introns"
    /\ IF Truthy(intron_scale)
       THEN /\ scaled_coords' = scale_introns(coords, intron_scale)
            /\ stdout' = stdout \o scale_introns_prints(intron_scale)
       ELSE UNCHANGED <<scaled_coords, stdout>>
    /\ pc' = "get_sj.canonical"
    /\ UNCHANGED <<intron_scale, coords, transcript, rows, callV, curveV, runV>>

\* conn = sqlite3.connect(db_path)
GetSjCanonicalConnect ==
    /\ pc = "get_sj.canonical"
    /\ opened' = opened + 1
    /\ conns' = conns \cup {opened + 1}
    /\ pc' = "get_sj.canonical.fetch"
    /\ UNCHANGED <<intron_scale, coords, scaled_coords, stdout, transcript, rows,
                   callV, curveV, databases, gene, reduce_canonical, reduce_backsplice,
                   db_index, canonical, backsplice, samples, figure, starts_stops,
                   db_junctions>>

GetSjCanonical ==
    /\ pc = "get_sj.canonical.fetch"
    /\ \E junctions \in DbJunctions(starts_stops) :
        /\ canonical' = junctions
        /\ db_junctions' = Append(db_junctions, junctions)
    /\ conns' = conns \ {opened}
    /\ pc' = "get_sj.circle"
    /\ UNCHANGED <<intron_scale, coords, scaled_coords, stdout, transcript, rows,
                   callV, curveV, databases, gene, reduce_canonical, reduce_backsplice,
                   opened, db_index, backsplice, samples, figure, starts_stops>>

\* conn = sqlite3.connect(db_path)
GetSjCircleConnect ==
    /\ pc = "get_sj.circle"
    /\ opened' = opened + 1
    /\ conns' = conns \cup {opened + 1}
    /\ pc' = "get_sj.circle.fetch"
    /\ UNCHANGED <<intron_scale, coords, scaled_coords, stdout, transcript, rows,
                   callV, curveV, databases, gene, reduce_canonical, reduce_backsplice,
                   db_index, canonical, backsplice, samples, figure, starts_stops,
                   db_junctions>>

GetSjCircle ==
    /\ pc = "get_sj.circle.fetch"
    /\ \E junctions \in DbJunctions(starts_stops) :
        /\ backsplice' = junctions
        /\ db_junctions' = Append(db_junctions, junctions)
    /\ conns' = conns \ {opened}
    /\ pc' = "get_coverage"
    /\ UNCHANGED <<intron_scale, coords, scaled_coords, stdout, transcript, rows,
                   callV, curveV, databases, gene, reduce_canonical, reduce_backsplice,
                   opened, db_index, canonical, samples, figure, starts_stops>>

\* conn = sqlite3.connect(db_path)
GetCoverageConnect ==
    /\ pc = "get_coverage"
    /\ opened' = opened + 1
    /\ conns' = conns \cup {opened + 1}
    /\ pc' = "get_coverage.fetch"
    /\ UNCHANGED <<intron_scale, coords, scaled_coords, stdout, transcript, rows,
                   callV, curveV, databases, gene, reduce_canonical, reduce_backsplice,
                   db_index, canonical, backsplice, samples, figure, starts_stops,
                   db_junctions>>

\* get_coverage returns without conn.close(): the connection stays open unless
\* the interpreter finalizes the unreferenced object at the return
GetCoverage ==
    /\ pc = "get_coverage.fetch"
    /\ \E finalized \in BOOLEAN :
        conns' = IF finalized THEN conns \ {opened} ELSE conns
    /\ pc' = "sample"
    /\ UNCHANGED <<intron_scale, coords, scaled_coords, stdout, transcript, rows,
                   callV, curveV, databases, gene, reduce_canonical, reduce_backsplice,
                   opened, db_index, canonical, backsplice, samples, figure,
                   starts_stops, db_junctions>>

\* the rest of the loop body: scale_coords, the count reductions, samples.append
AppendSample ==
    /\ pc = "sample"
    /\ LET c1 == IF Truthy(intron_scale)
                 THEN scale_coords(coords, scaled_coords, canonical) ELSE canonical
           b1 == IF Truthy(intron_scale)
                 THEN scale_coords(coords, scaled_coords, backsplice) ELSE backsplice
           c2 == IF reduce_canonical # 0 THEN reduce(c1, reduce_canonical) ELSE c1
           b2 == IF reduce_backsplice # 0 THEN reduce(b1, reduce_backsplice) ELSE b1
       IN  /\ canonical' = c2
           /\ backsplice' = b2
           /\ samples' = Append(samples, <<db_index, c2, b2>>)
    /\ db_index' = db_index + 1
    /\ pc' = IF db_index < databases THEN "get_sj.canonical" ELSE "coords"
    /\ UNCHANGED <<intron_scale, coords, scaled_coords, stdout, transcript, rows,
                   callV, curveV, databases, gene, reduce_canonical, reduce_backsplice,
                   conns, opened, figure, starts_stops, db_junctions>>

\* if args.intron_scale: coords = scaled_coords
UseScaledCoords ==
    /\ pc = "coords"
    /\ coords' = IF Truthy(intron_scale) THEN scaled_coords ELSE coords
    /\ pc' = "add_ax"
    /\ UNCHANGED <<intron_scale, scaled_coords, stdout, transcript, rows,
                   callV, curveV, runV>>

add_ax(sample) ==
    LET a == new_ax(coords)
    IN  [a EXCEPT !.patches =
            plot_exons(coords, ybottom, height)
            \o plot_SJ_curves(a.xlim, sample[2], ytop)
            \o plot_circles(a.ylim, sample[3], ybottom, gene_length(coords))]

AddAx ==
    /\ pc = "add_ax"
    /\ Len(figure) < Len(samples)
    /\ ax' = add_ax(samples[Len(figure) + 1])
    /\ figure' = Append(figure, ax')
    /\ UNCHANGED <<pc, intron_scale, coords, scaled_coords, stdout, transcript, rows,
                   callV, drawn, databases, gene, reduce_canonical, reduce_backsplice,
                   conns, opened, db_index, canonical, backsplice, samples,
                   starts_stops, db_junctions>>

\* savefig, the html wrapper, webbrowser.open
SaveFigure ==
    /\ pc = "add_ax"
    /\ Len(figure) = Len(samples)
    /\ pc' = "done"
    /\ UNCHANGED <<intron_scale, coords, scaled_coords, stdout, transcript, rows,
                   callV, curveV, runV>>

Next ==
    \/ ParseArgsNoDatabase \/ ParseArgsNoSelector \/ ParseArgs
    \/ GetTranscriptConnect \/ GetTranscriptFromGene
    \/ GetExonsConnect \/ GetExonsNotFound \/ GetExonsSeveralChromosomes \/ GetExons
    \/ ScaleIntrons
    \/ GetSjCanonicalConnect \/ GetSjCanonical
    \/ GetSjCircleConnect \/ GetSjCircle
    \/ GetCoverageConnect \/ GetCoverage
    \/ AppendSample \/ UseScaledCoords \/ AddAx \/ SaveFigure

Spec == Init /\ [][Next]_vars

(***************************************************************************)
(* Properties of the intron scaler, the range transform and the mapper     *)
(* (checked under SpecScale).                                              *)
(***************************************************************************)
Scaled == pc \in {"transform", "transformed", "mapped"}
first_start == coords[1][1]
last_stop == coords[Len(coords)][2]

\* C1: transform is the identity when the original and the scaled space are the
\* same list: every query q with first_start <= q <= last_stop, also one
\* strictly inside the last exon, is returned unchanged.
C1_TransformIdentity ==
    (pc = "transformed" /\ scaled_coords = coords
        /\ RLe(first_start, query) /\ RLe(query, last_stop))
    => tresult = query

\* C2: with at least two exons and a factor s > 0, a junction endpoint equal to
\* the k-th breakpoint of the flattened original exon list (the stop of the last
\* exon included) is mapped by transform, and so by scale_coords, to the k-th
\* breakpoint of the flattened scaled exon list.
C2_BreakpointsAligned ==
    (Scaled /\ Len(coords) >= 2 /\ RLt(Zero, intron_scale)) =>
        \A k \in 1..(2 * Len(coords)) :
            /\ (pc = "transformed" /\ query = Flatten(coords)[k])
                => tresult = Flatten(scaled_coords)[k]
            /\ \A m \in 1..Len(jin) : \A e \in 1..2 :
                (pc = "mapped" /\ jin[m][e] = Flatten(coords)[k])
                    => jout[m][e] = Flatten(scaled_coords)[k]

\* C5: for a nonzero factor scale_introns returns as many exons as it was
\* given, in the same order, leaves the first exon unchanged and keeps every
\* exon's length: new_stop_i - new_start_i = stop_i - start_i.
C5_ShapePreserved ==
    (Scaled /\ intron_scale # Zero) =>
        /\ Len(scaled_coords) = Len(coords)
        /\ scaled_coords[1] = coords[1]
        /\ \A i \in 1..Len(coords) :
            RSub(scaled_coords[i][2], scaled_coords[i][1]) = RSub(coords[i][2], coords[i][1])

C5_Witness ==
    /\ pc = "transform"
    /\ intron_scale = R(2)
    /\ Len(coords) = 2
    /\ RLt(coords[1][1], coords[1][2])
    /\ RLt(coords[2][1], coords[2][2])
    /\ scaled_coords # coords
    /\ Len(scaled_coords) = 2

\* C6: for a nonzero factor s every inter-exon gap is divided by s:
\* new_start_i - new_stop_{i-1} = (start_i - stop_{i-1}) / s for every i >= 1;
\* with s = 1 the output exon list equals the input exon list.
C6_GapsDivided ==
    (Scaled /\ intron_scale # Zero) =>
        /\ \A i \in 2..Len(scaled_coords) :
            RSub(scaled_coords[i][1], scaled_coords[i - 1][2])
                = RDiv(RSub(coords[i][1], coords[i - 1][2]), intron_scale)
        /\ (intron_scale = R(1) => scaled_coords = coords)

C6_Witness ==
    /\ pc = "transform"
    /\ intron_scale = Rat(1, 2)
    /\ Len(coords) = 2
    /\ RSub(coords[2][1], coords[1][2]) = R(1)
    /\ RSub(scaled_coords[2][1], scaled_coords[1][2]) = R(2)

\* C10: for every nonzero factor that scale_introns accepts the output spans
\* are increasing and mutually non-overlapping (new_start_i <= new_stop_i and
\* new_stop_{i-1} <= new_start_i) and no inter-exon gap exceeds the original gap.
C10_MonotoneCompressed ==
    (Scaled /\ intron_scale # Zero) =>
        /\ \A i \in 1..Len(scaled_coords) : RLe(scaled_coords[i][1], scaled_coords[i][2])
        /\ \A i \in 2..Len(scaled_coords) :
            /\ RLe(scaled_coords[i - 1][2], scaled_coords[i][1])
            /\ RLe(RSub(scaled_coords[i][1], scaled_coords[i - 1][2]),
                   RSub(coords[i][1], coords[i - 1][2]))

(***************************************************************************)
(* Properties of the curve generators (checked under SpecCurves).          *)
(***************************************************************************)
RECURSIVE SumCounts(_)
SumCounts(js) == IF js = <<>> THEN 0 ELSE Head(js)[3] + SumCounts(Tail(js))

\* patches drawn for the junctions before the m-th
Before(m) == SumCounts(SubSeq(drawn, 1, m - 1))

\* the depth offset handed to draw_backsplice, read back from the curve
AdjustOf(p) ==
    RSub(RSub(ybottom, RMul(Rat(15, 100), RSub(ax.ylim[2], ax.ylim[1]))), p.verts[2][2])

\* C3 as stated: 2 * count calls of draw_backsplice per backsplice junction.
C3_TwiceCount ==
    pc = "plot_circles" =>
        /\ Len(ax.patches) = 2 * SumCounts(drawn)
        /\ \A m \in 1..Len(drawn) :
            Cardinality({k \in 1..Len(ax.patches) :
                            /\ k > 2 * Before(m)
                            /\ k <= 2 * Before(m) + 2 * drawn[m][3]
                            /\ ax.patches[k].verts[1] = <<drawn[m][1], ybottom>>
                            /\ ax.patches[k].verts[4] = <<drawn[m][2], ybottom>>})
                = 2 * drawn[m][3]

\* C3 as amended: plot_circles calls draw_backsplice exactly count times for a
\* junction with count > 0, at the depth offsets k / (2 * count), k = 0..count-1
\* (from 0.0 to 0.5 exclusive in steps of 1 / (2 * count)), and never for
\* count = 0.
C3_CountCurves ==
    pc = "plot_circles" =>
        /\ Len(ax.patches) = SumCounts(drawn)
        /\ \A m \in 1..Len(drawn) : \A k \in 1..drawn[m][3] :
            LET p == ax.patches[Before(m) + k]
            IN  /\ p.kind = "PathPatch"
                /\ p.verts[1] = <<drawn[m][1], ybottom>>
                /\ p.verts[4] = <<drawn[m][2], ybottom>>
                /\ AdjustOf(p) = Rat(k - 1, 2 * drawn[m][3])
                /\ RLt(AdjustOf(p), Rat(1, 2))

C3_Witness ==
    /\ pc = "plot_circles"
    /\ Len(drawn) = 2
    /\ drawn[1][3] = 2
    /\ drawn[2][3] = 0
    /\ Len(ax.patches) = 2
    /\ AdjustOf(ax.patches[2]) = Rat(1, 4)

\* C4: plot_SJ_curves adds exactly count arcs for a canonical junction with
\* count > 0, the k-th at base depth 0.2 + k * 0.2 / count (k = 0..count-1, so
\* below 0.4) times the arc-length correction, and no arc for count = 0.
C4_CountArcs ==
    pc = "plot_SJ_curves" =>
        /\ Len(ax.patches) = SumCounts(drawn)
        /\ \A m \in 1..Len(drawn) : \A k \in 1..drawn[m][3] :
            LET p == ax.patches[Before(m) + k]
                base == RAdd(Rat(2, 10), RMul(R(k - 1), RDiv(Rat(2, 10), R(drawn[m][3]))))
                corr == radian_corr(RSub(drawn[m][2], drawn[m][1]),
                                    RSub(ax.xlim[2], ax.xlim[1]))
            IN  /\ p.kind = "ConnectionPatch"
                /\ p.posA = <<drawn[m][1], ytop>>
                /\ p.posB = <<drawn[m][2], ytop>>
                /\ p.rad = RSub(Zero, RMul(base, corr))
                /\ RLt(base, Rat(4, 10))

C4_Witness ==
    /\ pc = "plot_SJ_curves"
    /\ Len(drawn) = 2
    /\ drawn[1][3] = 0
    /\ drawn[2][3] = 2
    /\ Len(ax.patches) = 2
    /\ ax.patches[1].rad # ax.patches[2].rad

(***************************************************************************)
(* Properties of the run (checked under Spec).                             *)
(***************************************************************************)
Printed(line) == \E k \in 1..Len(stdout) : stdout[k] = line

\* C7: a run given an intron-scale factor of 0 prints the zero-factor warning
\* and completes with exons and junctions plotted in the original coordinates.
C7_ZeroFactorWarned ==
    (pc = "done" /\ intron_scale = Zero) =>
        /\ Printed(ZeroFactorWarning)
        /\ coords = starts_stops
        /\ Len(figure) = databases
        /\ \A i \in 1..Len(figure) :
            /\ SubSeq(figure[i].patches, 1, Len(starts_stops))
                    = plot_exons(starts_stops, ybottom, height)
            /\ \A k \in 1..Len(samples[i][2]) : \A e \in 1..2 :
                    samples[i][2][k][e] = db_junctions[2 * i - 1][k][e]
            /\ \A k \in 1..Len(samples[i][3]) : \A e \in 1..2 :
                    samples[i][3][k][e] = db_junctions[2 * i][k][e]

\* C8: at most one database connection is open at any time, and none is left
\* open when the run completes.
C8_OneConnection ==
    /\ Cardinality(conns) <= 1
    /\ pc = "done" => conns = {}

(***************************************************************************)
(* Property of the resolver (checked under SpecGene).                      *)
(***************************************************************************)
RECURSIVE TotalLength(_, _)
TotalLength(t, rs) ==
    IF rs = <<>> THEN 0
    ELSE (IF Head(rs)[1] = t THEN Head(rs)[3] - Head(rs)[2] + 1 ELSE 0)
         + TotalLength(t, Tail(rs))

Present == {rows[k][1] : k \in 1..Len(rows)}
FirstRow(t) == CHOOSE k \in 1..Len(rows) :
                  rows[k][1] = t /\ \A h \in 1..(k - 1) : rows[h][1] # t

\* C9: get_transcript_from_gene returns a transcript whose summed exon lengths
\* (stop - start + 1 per row) are maximal over the gene's transcripts, and among
\* those tying for the maximum the one met first in iteration order.
C9_LongestFirst ==
    (pc = "resolved" /\ rows # <<>>) =>
        /\ transcript \in Present
        /\ \A t \in Present : TotalLength(t, rows) <= TotalLength(transcript, rows)
        /\ \A t \in Present :
            TotalLength(t, rows) = TotalLength(transcript, rows)
                => FirstRow(transcript) <= FirstRow(t)

C9_Witness ==
    /\ pc = "resolved"
    /\ Len(rows) = 3
    /\ rows[1][1] = "T2" /\ rows[2][1] = "T1" /\ rows[3][1] = "T2"
    /\ TotalLength("T1", rows) = TotalLength("T2", rows)
    /\ transcript = "T2"

====
